---------------------------- MODULE Spec2Model ----------------------------
(***************************************************************************)
(* A model of the once-only primitives of toolbelt (src/src/once.rs):      *)
(*   DoOnce      - run a closure once, single owner (&mut self)            *)
(*   DoOnceSync  - run a closure once, shared between threads (AtomicBool) *)
(*   InitOnce<T> - a once-initialised cell guarded by an AtomicBool lock   *)
(* and of the deferred-state slot of src/src/lib.rs:                       *)
(*   Defer<S>    - zero or one pending state, guarded by an AtomicBool     *)
(* Every atomic operation and every access of an UnsafeCell is one step,   *)
(* so that the interleavings of concurrent callers are explored.           *)
(***************************************************************************)
EXTENDS Naturals, Sequences, FiniteSets

\* ---------------------------------------------------------------- bounds
\* Threads that may share one DoOnceSync.
NCallers == 3
\* Calls made in total on each DoOnce / DoOnceSync instance.
MaxCalls == 3
\* Threads that may share one InitOnce.
NThreads == 2
\* The values an InitOnce<T> may be given are 1..NValues.
NValues == 2
\* Calls made on an InitOnce used by one thread (nested calls not counted).
MaxOps == 4
\* Calls made in total on an InitOnce shared by several threads.
MaxSharedOps == 2

AllCallers == 1..NCallers
AllThreads == 1..NThreads
Values == 1..NValues

VARIABLES
    once0,      \* DoOnce.0 : bool
    onceLog,    \* the calls made on the DoOnce, in order, with what each did
    sync0,      \* DoOnceSync.0 : AtomicBool
    callers,    \* the threads sharing the DoOnceSync
    syncPc,     \* per caller: "idle", or "func" (swap won, closure not yet run)
    syncLog,    \* the calls completed on the DoOnceSync, in completion order
    inner,      \* InitOnce.inner : UnsafeCell<Option<T>>
    lock,       \* InitOnce.lock : AtomicBool
    threads,    \* the threads sharing the InitOnce
    stack,      \* per thread: the call frames of its call in progress, innermost last
    rv,         \* per thread: the value its last nested call returned
    ncalls,     \* the number of calls begun on the InitOnce
    funcRuns,   \* the ids of the calls whose initializer closure was executed, in order
    hist,       \* the calls completed on the InitOnce, in completion order
    state,      \* Defer.state : UnsafeCell<Option<S>>
    locked,     \* Defer.locked : AtomicBool
    dstack,     \* the call frames of the call in progress on the Defer, innermost last
    dret,       \* what the last call made from inside a closure returned
    dcalls,     \* the number of calls begun on the Defer
    fRuns,      \* the invocations of closures by execute / try_execute, in order
    dhist,      \* the calls completed on the Defer, in completion order
    tcall       \* per thread sharing the Defer: its call in progress, if any

onceVars == <<once0, onceLog>>
syncVars == <<sync0, callers, syncPc, syncLog>>
initVars == <<inner, lock, threads, stack, rv, ncalls, funcRuns, hist>>
deferVars == <<state, locked, dstack, dret, dcalls, fRuns, dhist, tcall>>
vars == <<once0, onceLog, sync0, callers, syncPc, syncLog,
          inner, lock, threads, stack, rv, ncalls, funcRuns, hist,
          state, locked, dstack, dret, dcalls, fRuns, dhist, tcall>>

\* ================================================================ DoOnce
\* DoOnce::new
DoOnce_new == once0 = FALSE /\ onceLog = <<>>

\* A variant of do_once that runs the closure and forgets `self.0 = true`.
DoOnce_do_once_FlagNotSet ==
    /\ Len(onceLog) < MaxCalls
    /\ onceLog' = Append(onceLog, [op |-> "do_once", val |-> ~once0])
    /\ UNCHANGED <<once0, syncVars, initVars, deferVars>>

\* DoOnce::do_once: the closure runs, and the flag is set, only when the
\* flag is clear. The receiver is &mut self, so the call is indivisible.
\* The log entry's val tells whether this call's closure was executed.
DoOnce_do_once ==
    /\ Len(onceLog) < MaxCalls
    /\ IF ~once0
          THEN /\ onceLog' = Append(onceLog, [op |-> "do_once", val |-> TRUE])
               /\ once0' = TRUE
          ELSE /\ onceLog' = Append(onceLog, [op |-> "do_once", val |-> FALSE])
               /\ UNCHANGED once0
    /\ UNCHANGED <<syncVars, initVars, deferVars>>

\* DoOnce::done: returns the flag. The log entry's val is the value returned.
DoOnce_done ==
    /\ Len(onceLog) < MaxCalls
    /\ onceLog' = Append(onceLog, [op |-> "done", val |-> once0])
    /\ UNCHANGED <<once0, syncVars, initVars, deferVars>>

\* ============================================================ DoOnceSync
\* DoOnceSync::new; no caller is inside a call
DoOnceSync_new ==
    /\ sync0 = FALSE
    /\ syncPc = [t \in AllCallers |-> "idle"]
    /\ syncLog = <<>>

\* Calls of the DoOnceSync begun so far: the completed ones and those whose
\* closure is still to run.
SyncStarted == Len(syncLog) + Cardinality({t \in AllCallers : syncPc[t] = "func"})

\* A variant that reads the flag with load() where the code uses swap(true).
AtomicLoad(b) == [new |-> b, prev |-> b]

\* AtomicBool::swap(true, SeqCst): the new value of the flag and the value
\* returned, as one indivisible step.
AtomicSwapTrue(b) == [new |-> TRUE, prev |-> b]

\* DoOnceSync::do_once, first half: `let prev = self.0.swap(true)`. With
\* prev = false the caller goes on to run the closure; with prev = true the
\* call returns at once without running it.
DoOnceSync_swap(t) ==
    /\ t \in callers
    /\ syncPc[t] = "idle"
    /\ SyncStarted < MaxCalls
    /\ LET r == AtomicSwapTrue(sync0) IN
         /\ sync0' = r.new
         /\ IF ~r.prev
               THEN /\ syncPc' = [syncPc EXCEPT ![t] = "func"]
                    /\ UNCHANGED syncLog
               ELSE /\ syncLog' = Append(syncLog,
                                    [t |-> t, op |-> "do_once", val |-> FALSE])
                    /\ UNCHANGED syncPc
    /\ UNCHANGED <<callers, onceVars, initVars, deferVars>>

\* A variant of the second half that stores false to the flag after the
\* closure, as the release of a lock would.
DoOnceSync_func_Release(t) ==
    /\ t \in callers
    /\ syncPc[t] = "func"
    /\ syncLog' = Append(syncLog, [t |-> t, op |-> "do_once", val |-> TRUE])
    /\ syncPc' = [syncPc EXCEPT ![t] = "idle"]
    /\ sync0' = FALSE
    /\ UNCHANGED <<callers, onceVars, initVars, deferVars>>

\* DoOnceSync::do_once, second half: `func()`, then the call returns.
DoOnceSync_func(t) ==
    /\ t \in callers
    /\ syncPc[t] = "func"
    /\ syncLog' = Append(syncLog, [t |-> t, op |-> "do_once", val |-> TRUE])
    /\ syncPc' = [syncPc EXCEPT ![t] = "idle"]
    /\ UNCHANGED <<sync0, callers, onceVars, initVars, deferVars>>

\* DoOnceSync::done: an atomic load of the flag.
DoOnceSync_done(t) ==
    /\ t \in callers
    /\ syncPc[t] = "idle"
    /\ SyncStarted < MaxCalls
    /\ syncLog' = Append(syncLog, [t |-> t, op |-> "done", val |-> sync0])
    /\ UNCHANGED <<sync0, callers, syncPc, onceVars, initVars, deferVars>>

\* ============================================================== InitOnce
\* Option<T>: None, Some(v)
None == <<>>
Some(v) == <<v>>

\* What a call returns: a kind and a value (0 where the kind carries none).
\*   try_get:     <<"None", 0>>, <<"Some", v>>
\*   get:         <<"Ref", v>>, or the thread panics: <<"panic", 0>>
\*   initialize:  <<"Ok", 0>>, Err("... twice concurrently"), Err("... a second time")
\*   get_or_init: <<"Ok", v>>, Err("... twice at the same time"), or the Err of
\*                the initialize it called
ErrConcurrently == <<"Err: twice concurrently", 0>>
ErrSecondTime == <<"Err: a second time", 0>>
ErrSameTime == <<"Err: twice at the same time", 0>>
IsErr(r) == r \in {ErrConcurrently, ErrSecondTime, ErrSameTime}
NoValue == <<"none", 0>>

\* InitOnce::uninitialized
InitOnce_uninitialized == inner = None /\ lock = FALSE

\* No thread is inside a call, none was made.
InitOnceIdle ==
    /\ stack = [t \in AllThreads |-> <<>>]
    /\ rv = [t \in AllThreads |-> NoValue]
    /\ ncalls = 0
    /\ funcRuns = <<>>
    /\ hist = <<>>

\* The innermost frame of thread t's call in progress.
Top(t) == stack[t][Len(stack[t])]
InCall(t) == stack[t] # <<>>
At(t, fn, pc) == InCall(t) /\ Top(t).fn = fn /\ Top(t).pc = pc

\* The threads that panicked: a panic unwinds the thread, it makes no further call.
Panicked == {hist[i].t : i \in {j \in 1..Len(hist) : hist[j].res[1] = "panic"}}

\* A frame of a call of fn entered now. pre is what the cell holds and whether
\* its lock is held at the moment of the call.
Frame(fn, arg, id) ==
    [fn |-> fn, pc |-> IF fn = "get" THEN "read" ELSE "swap", arg |-> arg, id |-> id,
     pre |-> [inner |-> inner, lock |-> lock]]

\* The stack of t with the pc of its innermost frame set to pc.
Goto(t, pc) == [stack[t] EXCEPT ![Len(stack[t])].pc = pc]

\* The innermost call of t returns res: to its caller's frame, or, for the
\* outermost call, to the thread, which records the completed call.
Returned(t, res) ==
    IF Len(stack[t]) = 1
       THEN /\ stack' = [stack EXCEPT ![t] = <<>>]
            /\ hist' = Append(hist, [t |-> t, fn |-> Top(t).fn, arg |-> Top(t).arg,
                                     id |-> Top(t).id, pre |-> Top(t).pre, res |-> res])
            /\ rv' = [rv EXCEPT ![t] = NoValue]
       ELSE /\ stack' = [stack EXCEPT ![t] = SubSeq(stack[t], 1, Len(stack[t]) - 1)]
            /\ rv' = [rv EXCEPT ![t] = res]
            /\ UNCHANGED hist

\* The thread panics: every frame unwinds (no destructor releases the lock,
\* which is a plain AtomicBool), and the outermost call is recorded as panicked.
Panic(t) ==
    /\ stack' = [stack EXCEPT ![t] = <<>>]
    /\ hist' = Append(hist, [t |-> t, fn |-> stack[t][1].fn, arg |-> stack[t][1].arg,
                             id |-> stack[t][1].id, pre |-> stack[t][1].pre,
                             res |-> <<"panic", 0>>])
    /\ rv' = [rv EXCEPT ![t] = NoValue]

\* A thread is writing the cell: between initialize's is_some check and the end
\* of its `ptr.write(Some(value))`.
Writing(u) == At(u, "initialize", "write")

\* What a read of the UnsafeCell by thread t may see. A read that overlaps
\* another thread's write is a data race: it may see the old contents, the new,
\* or a torn Option (a Some with any payload).
ReadInner(t) ==
    IF \E u \in AllThreads \ {t} : Writing(u)
       THEN {None} \cup {Some(x) : x \in Values}
       ELSE {inner}

\* The calls the threads may make on the cell in all.
Budget == IF Cardinality(threads) = 1 THEN MaxOps ELSE MaxSharedOps

\* A thread outside any call calls try_get(), get(), initialize(v) or
\* get_or_init(|| v). arg is v (0 for try_get and get).
Call(t, fn, arg) ==
    /\ t \in threads
    /\ ~InCall(t)
    /\ t \notin Panicked
    /\ ncalls < Budget
    /\ ncalls' = ncalls + 1
    /\ stack' = [stack EXCEPT ![t] = <<Frame(fn, arg, ncalls + 1)>>]
    /\ UNCHANGED <<inner, lock, threads, rv, funcRuns, hist, onceVars, syncVars, deferVars>>

\* ---- try_get
\* `if self.lock.swap(true, SeqCst) { return None }`
try_get_swap(t) ==
    /\ At(t, "try_get", "swap")
    /\ LET r == AtomicSwapTrue(lock) IN
         /\ lock' = r.new
         /\ IF r.prev
               THEN Returned(t, <<"None", 0>>)
               ELSE /\ stack' = [stack EXCEPT ![t] = Goto(t, "unlock")]
                    /\ UNCHANGED <<rv, hist>>
    /\ UNCHANGED <<inner, threads, ncalls, funcRuns, onceVars, syncVars, deferVars>>

\* `let inner = unsafe { &*self.inner.get() }` takes a reference and reads
\* nothing; `self.lock.store(false, SeqCst)`.
try_get_unlock(t) ==
    /\ At(t, "try_get", "unlock")
    /\ lock' = FALSE
    /\ stack' = [stack EXCEPT ![t] = Goto(t, "as_ref")]
    /\ UNCHANGED <<inner, threads, rv, ncalls, funcRuns, hist, onceVars, syncVars, deferVars>>

\* A variant that empties the cell with take() where the code uses as_ref().
try_get_as_ref_Take(t) ==
    /\ At(t, "try_get", "as_ref")
    /\ \E o \in ReadInner(t) :
         Returned(t, IF o = None THEN <<"None", 0>> ELSE <<"Some", o[1]>>)
    /\ inner' = None
    /\ UNCHANGED <<lock, threads, ncalls, funcRuns, onceVars, syncVars, deferVars>>

\* `inner.as_ref()`: the cell is read here, after the lock was released.
try_get_as_ref(t) ==
    /\ At(t, "try_get", "as_ref")
    /\ \E o \in ReadInner(t) :
         Returned(t, IF o = None THEN <<"None", 0>> ELSE <<"Some", o[1]>>)
    /\ UNCHANGED <<inner, lock, threads, ncalls, funcRuns, onceVars, syncVars, deferVars>>

\* ---- get
\* A variant of get that hands out a default value (0) for an empty cell.
get_read_Default(t) ==
    /\ At(t, "get", "read")
    /\ \E o \in ReadInner(t) :
         Returned(t, IF o = None THEN <<"Ref", 0>> ELSE <<"Ref", o[1]>>)
    /\ UNCHANGED <<inner, lock, threads, ncalls, funcRuns, onceVars, syncVars, deferVars>>

\* `match self.inner.get().as_ref().unwrap() { Some(r) => r, None => panic!(..) }`:
\* the cell is read without the lock.
get_read(t) ==
    /\ At(t, "get", "read")
    /\ \E o \in ReadInner(t) :
         IF o = None THEN Panic(t) ELSE Returned(t, <<"Ref", o[1]>>)
    /\ UNCHANGED <<inner, lock, threads, ncalls, funcRuns, onceVars, syncVars, deferVars>>

\* ---- initialize
\* `let prev = self.lock.swap(true, SeqCst); if prev { return Err(..) }`
initialize_swap(t) ==
    /\ At(t, "initialize", "swap")
    /\ LET r == AtomicSwapTrue(lock) IN
         /\ lock' = r.new
         /\ IF r.prev
               THEN Returned(t, ErrConcurrently)
               ELSE /\ stack' = [stack EXCEPT ![t] = Goto(t, "check")]
                    /\ UNCHANGED <<rv, hist>>
    /\ UNCHANGED <<inner, threads, ncalls, funcRuns, onceVars, syncVars, deferVars>>

\* A variant of initialize without the is_some test: it always goes on to write.
initialize_check_NoCheck(t) ==
    /\ At(t, "initialize", "check")
    /\ stack' = [stack EXCEPT ![t] = Goto(t, "write")]
    /\ UNCHANGED <<inner, lock, threads, rv, ncalls, funcRuns, hist, onceVars, syncVars, deferVars>>

\* `if (*ptr).is_some() { return Err(..) }`: the early return does not store
\* false to the lock.
initialize_check(t) ==
    /\ At(t, "initialize", "check")
    /\ \E o \in ReadInner(t) :
         IF o # None
            THEN Returned(t, ErrSecondTime)
            ELSE /\ stack' = [stack EXCEPT ![t] = Goto(t, "write")]
                 /\ UNCHANGED <<rv, hist>>
    /\ UNCHANGED <<inner, lock, threads, ncalls, funcRuns, onceVars, syncVars, deferVars>>

\* `ptr.write(Some(value))`
initialize_write(t) ==
    /\ At(t, "initialize", "write")
    /\ inner' = Some(Top(t).arg)
    /\ stack' = [stack EXCEPT ![t] = Goto(t, "unlock")]
    /\ UNCHANGED <<lock, threads, rv, ncalls, funcRuns, hist, onceVars, syncVars, deferVars>>

\* A variant of initialize that returns Ok(()) without releasing the lock.
initialize_unlock_Forgotten(t) ==
    /\ At(t, "initialize", "unlock")
    /\ Returned(t, <<"Ok", 0>>)
    /\ UNCHANGED <<inner, lock, threads, ncalls, funcRuns, onceVars, syncVars, deferVars>>

\* `self.lock.store(false, SeqCst); Ok(())`
initialize_unlock(t) ==
    /\ At(t, "initialize", "unlock")
    /\ lock' = FALSE
    /\ Returned(t, <<"Ok", 0>>)
    /\ UNCHANGED <<inner, threads, ncalls, funcRuns, onceVars, syncVars, deferVars>>

\* ---- get_or_init
\* A variant of get_or_init that panics on a held lock, as Defer::defer does.
get_or_init_swap_Panics(t) ==
    /\ At(t, "get_or_init", "swap")
    /\ LET r == AtomicSwapTrue(lock) IN
         /\ lock' = r.new
         /\ IF r.prev
               THEN Panic(t)
               ELSE /\ stack' = [stack EXCEPT ![t] = Goto(t, "check")]
                    /\ UNCHANGED <<rv, hist>>
    /\ UNCHANGED <<inner, threads, ncalls, funcRuns, onceVars, syncVars, deferVars>>

\* `let prev = self.lock.swap(true, SeqCst); if prev { return Err(..) }`
get_or_init_swap(t) ==
    /\ At(t, "get_or_init", "swap")
    /\ LET r == AtomicSwapTrue(lock) IN
         /\ lock' = r.new
         /\ IF r.prev
               THEN Returned(t, ErrSameTime)
               ELSE /\ stack' = [stack EXCEPT ![t] = Goto(t, "check")]
                    /\ UNCHANGED <<rv, hist>>
    /\ UNCHANGED <<inner, threads, ncalls, funcRuns, onceVars, syncVars, deferVars>>

\* `if (*self.inner.get()).is_none() { .. }`
get_or_init_check(t) ==
    /\ At(t, "get_or_init", "check")
    /\ \E o \in ReadInner(t) :
         stack' = [stack EXCEPT ![t] = Goto(t, IF o = None THEN "func" ELSE "unlock")]
    /\ UNCHANGED <<inner, lock, threads, rv, ncalls, funcRuns, hist, onceVars, syncVars, deferVars>>

\* `self.initialize(func())`: the closure is executed and returns its value,
\* and initialize is called with it while this call still holds the lock.
get_or_init_func(t) ==
    /\ At(t, "get_or_init", "func")
    /\ funcRuns' = Append(funcRuns, Top(t).id)
    /\ stack' = [stack EXCEPT ![t] =
                   Append(Goto(t, "try"), Frame("initialize", Top(t).arg, Top(t).id))]
    /\ UNCHANGED <<inner, lock, threads, rv, ncalls, hist, onceVars, syncVars, deferVars>>

\* The `?` on initialize's result: an Err is returned as it is, and the lock
\* is not released on that path.
get_or_init_try(t) ==
    /\ At(t, "get_or_init", "try")
    /\ IF IsErr(rv[t])
          THEN Returned(t, rv[t])
          ELSE /\ stack' = [stack EXCEPT ![t] = Goto(t, "unlock")]
               /\ rv' = [rv EXCEPT ![t] = NoValue]
               /\ UNCHANGED hist
    /\ UNCHANGED <<inner, lock, threads, ncalls, funcRuns, onceVars, syncVars, deferVars>>

\* `self.lock.store(false, SeqCst)`, then the call of `self.get()`
get_or_init_unlock(t) ==
    /\ At(t, "get_or_init", "unlock")
    /\ lock' = FALSE
    /\ stack' = [stack EXCEPT ![t] = Append(Goto(t, "ret"), Frame("get", 0, Top(t).id))]
    /\ UNCHANGED <<inner, threads, rv, ncalls, funcRuns, hist, onceVars, syncVars, deferVars>>

\* `Ok(self.get())`
get_or_init_ret(t) ==
    /\ At(t, "get_or_init", "ret")
    /\ Returned(t, <<"Ok", rv[t][2]>>)
    /\ UNCHANGED <<inner, lock, threads, ncalls, funcRuns, onceVars, syncVars, deferVars>>

\* ---- an initializer that calls back into the cell
\* `cell.get_or_init(|| { cell.initialize(v)...; v })`, and the same with
\* get_or_init for the inner call: the closure starts and makes its call on
\* the cell, while the outer get_or_init holds the lock.
get_or_init_func_reentrant(t, fn) ==
    /\ At(t, "get_or_init", "func")
    /\ funcRuns' = Append(funcRuns, Top(t).id)
    /\ stack' = [stack EXCEPT ![t] =
                   Append(Goto(t, "closure"), Frame(fn, Top(t).arg, Top(t).id))]
    /\ UNCHANGED <<inner, lock, threads, rv, ncalls, hist, onceVars, syncVars, deferVars>>

\* The closure returns its value, and initialize is called with it.
closure_value(t) ==
    /\ stack' = [stack EXCEPT ![t] =
                   Append(Goto(t, "try"), Frame("initialize", Top(t).arg, Top(t).id))]
    /\ rv' = [rv EXCEPT ![t] = NoValue]
    /\ UNCHANGED hist

\* `.unwrap()` on the result of the closure's call: an Err panics in the
\* closure, and the panic unwinds through get_or_init.
closure_unwrap(t) ==
    /\ At(t, "get_or_init", "closure")
    /\ IF IsErr(rv[t]) THEN Panic(t) ELSE closure_value(t)
    /\ UNCHANGED <<inner, lock, threads, ncalls, funcRuns, onceVars, syncVars, deferVars>>

\* The closure drops the result of its call and returns its value.
closure_ret(t) ==
    /\ At(t, "get_or_init", "closure")
    /\ closure_value(t)
    /\ UNCHANGED <<inner, lock, threads, ncalls, funcRuns, onceVars, syncVars, deferVars>>

\* ================================================================= Defer
\* Defer<S> holds an UnsafeCell and has no Sync impl, so safe code uses it
\* from one thread. A second call then arrives while a first is in progress
\* only from inside the closure that execute / try_execute is running.

\* Defer::new
Defer_new == state = None /\ locked = FALSE

\* No call is in progress on the Defer, none was made.
DeferIdle ==
    /\ dstack = <<>>
    /\ dret = "none"
    /\ dcalls = 0
    /\ fRuns = <<>>
    /\ dhist = <<>>
    /\ tcall = [t \in AllThreads |-> <<>>]

\* `(*self.state.get()).is_some()`
is_deferred == state # None

\* The innermost frame of the call in progress.
DeferTop == dstack[Len(dstack)]
DeferInCall == dstack # <<>>
DeferAt(fn, pc) == DeferInCall /\ DeferTop.fn = fn /\ DeferTop.pc = pc
\* The panics of defer and of execute.
PanicDefer == "panic: defer() called while lock was already held"
PanicExecute == "panic: execute() called while lock was already held"
\* A call on the Defer panicked; the thread is gone.
DeferPanicked == \E i \in 1..Len(dhist) : dhist[i].res \in {PanicDefer, PanicExecute}

\* A call of fn(arg) begins. val is the state taken by execute (0: none),
\* pre is the Defer as the call found it.
DeferFrame(fn, arg, id) ==
    [fn |-> fn, pc |-> "fetch_or", arg |-> arg, id |-> id, val |-> 0, did_run |-> FALSE,
     pre |-> [state |-> state, locked |-> locked]]

DeferGoto(pc) == [dstack EXCEPT ![Len(dstack)].pc = pc]

\* The innermost call returns res: to the closure that made it, or, for the
\* outermost call, to the thread, which records the completed call.
DeferReturned(res) ==
    IF Len(dstack) = 1
       THEN /\ dstack' = <<>>
            /\ dhist' = Append(dhist, [fn |-> DeferTop.fn, arg |-> DeferTop.arg,
                                       id |-> DeferTop.id, pre |-> DeferTop.pre,
                                       res |-> res])
            /\ dret' = "none"
       ELSE /\ dstack' = SubSeq(dstack, 1, Len(dstack) - 1)
            /\ dret' = res
            /\ UNCHANGED dhist

\* panic!: every frame unwinds; `locked` is a plain AtomicBool that no
\* destructor resets. The outermost call is recorded as panicked.
DeferPanic(msg) ==
    /\ dstack' = <<>>
    /\ dhist' = Append(dhist, [fn |-> dstack[1].fn, arg |-> dstack[1].arg,
                               id |-> dstack[1].id, pre |-> dstack[1].pre,
                               res |-> msg])
    /\ dret' = "none"

\* AtomicBool::fetch_or(false, SeqCst): a variant that leaves the flag as it is.
AtomicFetchOrFalse(b) == [new |-> (b \/ FALSE), prev |-> b]

\* AtomicBool::fetch_or(true, SeqCst): stores (old | true), returns old.
AtomicFetchOrTrue(b) == [new |-> (b \/ TRUE), prev |-> b]

\* The thread, outside any call, calls defer(v), try_defer(v), execute(f) or
\* try_execute(f). arg is v (0 for execute and try_execute).
DeferCall(fn, arg) ==
    /\ ~DeferInCall
    /\ ~DeferPanicked
    /\ dcalls < MaxOps
    /\ dcalls' = dcalls + 1
    /\ dstack' = <<DeferFrame(fn, arg, dcalls + 1)>>
    /\ UNCHANGED <<state, locked, dret, fRuns, dhist, tcall, onceVars, syncVars, initVars>>

\* The closure that execute / try_execute is running calls the same Defer.
ClosureCall(fn, arg) ==
    /\ DeferInCall
    /\ DeferTop.fn \in {"execute", "try_execute"}
    /\ DeferTop.pc = "f"
    /\ dcalls < MaxOps
    /\ dcalls' = dcalls + 1
    /\ dstack' = Append(dstack, DeferFrame(fn, arg, dcalls + 1))
    /\ UNCHANGED <<state, locked, dret, fRuns, dhist, tcall, onceVars, syncVars, initVars>>

\* ---- defer
\* A variant of defer that returns on a held lock, where the code panics.
defer_fetch_or_Skip ==
    /\ DeferAt("defer", "fetch_or")
    /\ LET r == AtomicFetchOrTrue(locked) IN
         /\ locked' = r.new
         /\ IF r.prev
               THEN DeferReturned("unit")
               ELSE /\ dstack' = DeferGoto("write")
                    /\ UNCHANGED <<dret, dhist>>
    /\ UNCHANGED <<state, dcalls, fRuns, tcall, onceVars, syncVars, initVars>>

\* `let was_locked = self.locked.fetch_or(true, SeqCst); if was_locked { panic!(..) }`
defer_fetch_or ==
    /\ DeferAt("defer", "fetch_or")
    /\ LET r == AtomicFetchOrTrue(locked) IN
         /\ locked' = r.new
         /\ IF r.prev
               THEN DeferPanic(PanicDefer)
               ELSE /\ dstack' = DeferGoto("write")
                    /\ UNCHANGED <<dret, dhist>>
    /\ UNCHANGED <<state, dcalls, fRuns, tcall, onceVars, syncVars, initVars>>

\* A variant of defer that keeps the value already pending.
defer_write_KeepFirst ==
    /\ DeferAt("defer", "write")
    /\ state' = IF state = None THEN Some(DeferTop.arg) ELSE state
    /\ dstack' = DeferGoto("store")
    /\ UNCHANGED <<locked, dret, dcalls, fRuns, dhist, tcall, onceVars, syncVars, initVars>>

\* `self.state.get().write(Some(state))`
defer_write ==
    /\ DeferAt("defer", "write")
    /\ state' = Some(DeferTop.arg)
    /\ dstack' = DeferGoto("store")
    /\ UNCHANGED <<locked, dret, dcalls, fRuns, dhist, tcall, onceVars, syncVars, initVars>>

\* `self.locked.store(false, SeqCst)`
defer_store ==
    /\ DeferAt("defer", "store")
    /\ locked' = FALSE
    /\ DeferReturned("unit")
    /\ UNCHANGED <<state, dcalls, fRuns, tcall, onceVars, syncVars, initVars>>

\* ---- try_defer
\* `let was_locked = self.locked.fetch_or(true, SeqCst); if was_locked { false }`
try_defer_fetch_or ==
    /\ DeferAt("try_defer", "fetch_or")
    /\ LET r == AtomicFetchOrTrue(locked) IN
         /\ locked' = r.new
         /\ IF r.prev
               THEN DeferReturned("false")
               ELSE /\ dstack' = DeferGoto("write")
                    /\ UNCHANGED <<dret, dhist>>
    /\ UNCHANGED <<state, dcalls, fRuns, tcall, onceVars, syncVars, initVars>>

\* `self.state.get().write(Some(state))`: written whatever the slot holds.
try_defer_write ==
    /\ DeferAt("try_defer", "write")
    /\ state' = Some(DeferTop.arg)
    /\ dstack' = DeferGoto("store")
    /\ UNCHANGED <<locked, dret, dcalls, fRuns, dhist, tcall, onceVars, syncVars, initVars>>

\* `self.locked.store(false, SeqCst); true`
try_defer_store ==
    /\ DeferAt("try_defer", "store")
    /\ locked' = FALSE
    /\ DeferReturned("true")
    /\ UNCHANGED <<state, dcalls, fRuns, tcall, onceVars, syncVars, initVars>>

\* ---- execute and try_execute: the steps after the fetch_or are the same
\* `let opt = (&mut *self.state.get()).take()` and the match on opt
Take(fn) ==
    /\ DeferAt(fn, "take")
    /\ state' = None
    /\ dstack' = IF state # None
                    THEN [dstack EXCEPT ![Len(dstack)].pc = "invoke",
                                        ![Len(dstack)].val = state[1]]
                    ELSE DeferGoto("store")
    /\ UNCHANGED <<locked, dret, dcalls, fRuns, dhist, tcall, onceVars, syncVars, initVars>>

\* `f(value)`: the closure is entered with the value taken.
Invoke(fn) ==
    /\ DeferAt(fn, "invoke")
    /\ fRuns' = Append(fRuns, [id |-> DeferTop.id, val |-> DeferTop.val])
    /\ dstack' = DeferGoto("f")
    /\ UNCHANGED <<state, locked, dret, dcalls, dhist, tcall, onceVars, syncVars, initVars>>

\* The closure returns; `true` is the value of the match arm.
ClosureRet(fn) ==
    /\ DeferAt(fn, "f")
    /\ dstack' = [dstack EXCEPT ![Len(dstack)].pc = "store",
                                ![Len(dstack)].did_run = TRUE]
    /\ dret' = "none"
    /\ UNCHANGED <<state, locked, dcalls, fRuns, dhist, tcall, onceVars, syncVars, initVars>>

\* ---- execute
\* `let was_locked = self.locked.fetch_or(true, SeqCst); if was_locked { panic!(..) }`
execute_fetch_or ==
    /\ DeferAt("execute", "fetch_or")
    /\ LET r == AtomicFetchOrTrue(locked) IN
         /\ locked' = r.new
         /\ IF r.prev
               THEN DeferPanic(PanicExecute)
               ELSE /\ dstack' = DeferGoto("take")
                    /\ UNCHANGED <<dret, dhist>>
    /\ UNCHANGED <<state, dcalls, fRuns, tcall, onceVars, syncVars, initVars>>

\* A variant of execute that reads the pending value and leaves it in place.
execute_take_Peek ==
    /\ DeferAt("execute", "take")
    /\ dstack' = IF state # None
                    THEN [dstack EXCEPT ![Len(dstack)].pc = "invoke",
                                        ![Len(dstack)].val = state[1]]
                    ELSE DeferGoto("store")
    /\ UNCHANGED <<state, locked, dret, dcalls, fRuns, dhist, tcall, onceVars, syncVars, initVars>>

execute_take == Take("execute")
execute_invoke == Invoke("execute")
execute_closure_ret == ClosureRet("execute")

\* A variant of execute that returns without releasing the lock.
execute_store_Forgotten ==
    /\ DeferAt("execute", "store")
    /\ DeferReturned(IF DeferTop.did_run THEN "true" ELSE "false")
    /\ UNCHANGED <<state, locked, dcalls, fRuns, tcall, onceVars, syncVars, initVars>>

\* `self.locked.store(false, SeqCst); did_run`
execute_store ==
    /\ DeferAt("execute", "store")
    /\ locked' = FALSE
    /\ DeferReturned(IF DeferTop.did_run THEN "true" ELSE "false")
    /\ UNCHANGED <<state, dcalls, fRuns, tcall, onceVars, syncVars, initVars>>

\* ---- try_execute
\* A variant of try_execute that panics on a held lock, as execute does.
try_execute_fetch_or_Panics ==
    /\ DeferAt("try_execute", "fetch_or")
    /\ LET r == AtomicFetchOrTrue(locked) IN
         /\ locked' = r.new
         /\ IF r.prev
               THEN DeferPanic(PanicExecute)
               ELSE /\ dstack' = DeferGoto("take")
                    /\ UNCHANGED <<dret, dhist>>
    /\ UNCHANGED <<state, dcalls, fRuns, tcall, onceVars, syncVars, initVars>>

\* `let was_locked = self.locked.fetch_or(true, SeqCst); if was_locked { Err(()) }`
try_execute_fetch_or ==
    /\ DeferAt("try_execute", "fetch_or")
    /\ LET r == AtomicFetchOrTrue(locked) IN
         /\ locked' = r.new
         /\ IF r.prev
               THEN DeferReturned("Err(())")
               ELSE /\ dstack' = DeferGoto("take")
                    /\ UNCHANGED <<dret, dhist>>
    /\ UNCHANGED <<state, dcalls, fRuns, tcall, onceVars, syncVars, initVars>>

\* A variant of try_execute that releases the lock before it calls f.
try_execute_invoke_Unlocked ==
    /\ DeferAt("try_execute", "invoke")
    /\ locked' = FALSE
    /\ fRuns' = Append(fRuns, [id |-> DeferTop.id, val |-> DeferTop.val])
    /\ dstack' = DeferGoto("f")
    /\ UNCHANGED <<state, dret, dcalls, dhist, tcall, onceVars, syncVars, initVars>>

try_execute_take == Take("try_execute")
try_execute_invoke == Invoke("try_execute")
try_execute_closure_ret == ClosureRet("try_execute")

\* `self.locked.store(false, SeqCst); Ok(did_run)`
try_execute_store ==
    /\ DeferAt("try_execute", "store")
    /\ locked' = FALSE
    /\ DeferReturned(IF DeferTop.did_run THEN "Ok(true)" ELSE "Ok(false)")
    /\ UNCHANGED <<state, dcalls, fRuns, tcall, onceVars, syncVars, initVars>>

\* ---- a Defer used from several threads through try_defer and try_execute
\* The doc comments offer try_defer and try_execute for multi-threaded
\* contexts (lib.rs:256, 265, 302). Defer itself declares no Sync, so the
\* threads reach it through a wrapper that does. Each thread executes the
\* statements of its call one at a time; the value a try_defer passes is
\* the number of the call, so that every store has a value of its own.
SharedAt(t, fn, pc) == tcall[t] # <<>> /\ tcall[t][1].fn = fn /\ tcall[t][1].pc = pc
SharedGoto(t, pc) == [tcall EXCEPT ![t] = <<[tcall[t][1] EXCEPT !.pc = pc]>>]

\* The call of thread t returns res.
SharedReturned(t, res) ==
    /\ tcall' = [tcall EXCEPT ![t] = <<>>]
    /\ dhist' = Append(dhist, [fn |-> tcall[t][1].fn, arg |-> tcall[t][1].arg,
                               id |-> tcall[t][1].id, pre |-> tcall[t][1].pre,
                               res |-> res])

\* Thread t, outside any call, calls try_defer(id of the call) or try_execute(f).
SharedCall(t, fn) ==
    /\ tcall[t] = <<>>
    /\ dcalls < MaxOps
    /\ dcalls' = dcalls + 1
    /\ tcall' = [tcall EXCEPT ![t] =
                   <<DeferFrame(fn, IF fn = "try_defer" THEN dcalls + 1 ELSE 0, dcalls + 1)>>]
    /\ UNCHANGED <<state, locked, dstack, dret, fRuns, dhist, onceVars, syncVars, initVars>>

\* `let was_locked = self.locked.fetch_or(true, SeqCst); if was_locked { false }`
shared_try_defer_fetch_or(t) ==
    /\ SharedAt(t, "try_defer", "fetch_or")
    /\ LET r == AtomicFetchOrTrue(locked) IN
         /\ locked' = r.new
         /\ IF r.prev
               THEN SharedReturned(t, "false")
               ELSE /\ tcall' = SharedGoto(t, "write")
                    /\ UNCHANGED dhist
    /\ UNCHANGED <<state, dstack, dret, dcalls, fRuns, onceVars, syncVars, initVars>>

\* `self.state.get().write(Some(state))`
shared_try_defer_write(t) ==
    /\ SharedAt(t, "try_defer", "write")
    /\ state' = Some(tcall[t][1].arg)
    /\ tcall' = SharedGoto(t, "store")
    /\ UNCHANGED <<locked, dstack, dret, dcalls, fRuns, dhist, onceVars, syncVars, initVars>>

\* `self.locked.store(false, SeqCst); true`
shared_try_defer_store(t) ==
    /\ SharedAt(t, "try_defer", "store")
    /\ locked' = FALSE
    /\ SharedReturned(t, "true")
    /\ UNCHANGED <<state, dstack, dret, dcalls, fRuns, onceVars, syncVars, initVars>>

\* `let was_locked = self.locked.fetch_or(true, SeqCst); if was_locked { Err(()) }`
shared_try_execute_fetch_or(t) ==
    /\ SharedAt(t, "try_execute", "fetch_or")
    /\ LET r == AtomicFetchOrTrue(locked) IN
         /\ locked' = r.new
         /\ IF r.prev
               THEN SharedReturned(t, "Err(())")
               ELSE /\ tcall' = SharedGoto(t, "take")
                    /\ UNCHANGED dhist
    /\ UNCHANGED <<state, dstack, dret, dcalls, fRuns, onceVars, syncVars, initVars>>

\* A variant of try_execute that reads the pending value and leaves it in place.
shared_try_execute_take_Peek(t) ==
    /\ SharedAt(t, "try_execute", "take")
    /\ tcall' = IF state # None
                   THEN [tcall EXCEPT ![t] =
                           <<[tcall[t][1] EXCEPT !.pc = "invoke", !.val = state[1]]>>]
                   ELSE SharedGoto(t, "store")
    /\ UNCHANGED <<state, locked, dstack, dret, dcalls, fRuns, dhist,
                   onceVars, syncVars, initVars>>

\* `let opt = (&mut *self.state.get()).take()` and the match on opt
shared_try_execute_take(t) ==
    /\ SharedAt(t, "try_execute", "take")
    /\ state' = None
    /\ tcall' = IF state # None
                   THEN [tcall EXCEPT ![t] =
                           <<[tcall[t][1] EXCEPT !.pc = "invoke", !.val = state[1]]>>]
                   ELSE SharedGoto(t, "store")
    /\ UNCHANGED <<locked, dstack, dret, dcalls, fRuns, dhist, onceVars, syncVars, initVars>>

\* `f(value)`: the closure is entered with the value taken.
shared_try_execute_invoke(t) ==
    /\ SharedAt(t, "try_execute", "invoke")
    /\ fRuns' = Append(fRuns, [id |-> tcall[t][1].id, val |-> tcall[t][1].val])
    /\ tcall' = SharedGoto(t, "f")
    /\ UNCHANGED <<state, locked, dstack, dret, dcalls, dhist, onceVars, syncVars, initVars>>

\* The closure returns; `true` is the value of the match arm.
shared_try_execute_closure_ret(t) ==
    /\ SharedAt(t, "try_execute", "f")
    /\ tcall' = [tcall EXCEPT ![t] =
                   <<[tcall[t][1] EXCEPT !.pc = "store", !.did_run = TRUE]>>]
    /\ UNCHANGED <<state, locked, dstack, dret, dcalls, fRuns, dhist,
                   onceVars, syncVars, initVars>>

\* `self.locked.store(false, SeqCst); Ok(did_run)`
shared_try_execute_store(t) ==
    /\ SharedAt(t, "try_execute", "store")
    /\ locked' = FALSE
    /\ SharedReturned(t, IF tcall[t][1].did_run THEN "Ok(true)" ELSE "Ok(false)")
    /\ UNCHANGED <<state, dstack, dret, dcalls, fRuns, onceVars, syncVars, initVars>>

\* ------------------------------------------------------- specifications
\* The environment: how many threads share each instance.
OnceShared == callers \in {1..n : n \in AllCallers}
OnceUnused == callers = {1}
InitOnceShared == threads \in {1..n : n \in AllThreads}
InitOnceUnused == threads = {1}
DeferUnused == Defer_new /\ DeferIdle

\* DoOnce and DoOnceSync
OnceInit ==
    /\ DoOnce_new /\ DoOnceSync_new /\ OnceShared
    /\ InitOnce_uninitialized /\ InitOnceIdle /\ InitOnceUnused
    /\ DeferUnused

NextOnce ==
    \/ DoOnce_do_once
    \/ DoOnce_done
    \/ \E t \in AllCallers : DoOnceSync_swap(t)
    \/ \E t \in AllCallers : DoOnceSync_func(t)
    \/ \E t \in AllCallers : DoOnceSync_done(t)

SpecOnce == OnceInit /\ [][NextOnce]_vars

\* InitOnce
InitOnceInit ==
    /\ InitOnce_uninitialized /\ InitOnceIdle /\ InitOnceShared
    /\ DoOnce_new /\ DoOnceSync_new /\ OnceUnused
    /\ DeferUnused

\* A thread begins a call on the cell.
InitOnceCalls ==
    \/ \E t \in AllThreads : Call(t, "try_get", 0)
    \/ \E t \in AllThreads : Call(t, "get", 0)
    \/ \E t \in AllThreads, v \in Values : Call(t, "initialize", v)
    \/ \E t \in AllThreads, v \in Values : Call(t, "get_or_init", v)

\* A thread executes the next step of its call.
InitOnceSteps ==
    \/ \E t \in AllThreads : try_get_swap(t)
    \/ \E t \in AllThreads : try_get_unlock(t)
    \/ \E t \in AllThreads : try_get_as_ref(t)
    \/ \E t \in AllThreads : get_read(t)
    \/ \E t \in AllThreads : initialize_swap(t)
    \/ \E t \in AllThreads : initialize_check(t)
    \/ \E t \in AllThreads : initialize_write(t)
    \/ \E t \in AllThreads : initialize_unlock(t)
    \/ \E t \in AllThreads : get_or_init_swap(t)
    \/ \E t \in AllThreads : get_or_init_check(t)
    \/ \E t \in AllThreads : get_or_init_func(t)
    \/ \E t \in AllThreads : get_or_init_try(t)
    \/ \E t \in AllThreads : get_or_init_unlock(t)
    \/ \E t \in AllThreads : get_or_init_ret(t)

NextInitOnce == InitOnceCalls \/ InitOnceSteps

SpecInitOnce == InitOnceInit /\ [][NextInitOnce]_vars

\* One thread uses the cell, and its initializers may call back into it.
InitOnceSole == threads = {1}

ReentrantInit ==
    /\ InitOnce_uninitialized /\ InitOnceIdle /\ InitOnceSole
    /\ DoOnce_new /\ DoOnceSync_new /\ OnceUnused
    /\ DeferUnused

NextReentrant ==
    \/ NextInitOnce
    \/ \E t \in AllThreads : get_or_init_func_reentrant(t, "initialize")
    \/ \E t \in AllThreads : get_or_init_func_reentrant(t, "get_or_init")
    \/ \E t \in AllThreads : closure_unwrap(t)
    \/ \E t \in AllThreads : closure_ret(t)

SpecReentrant == ReentrantInit /\ [][NextReentrant]_vars

DeferInit ==
    /\ Defer_new /\ DeferIdle
    /\ DoOnce_new /\ DoOnceSync_new /\ OnceUnused
    /\ InitOnce_uninitialized /\ InitOnceIdle /\ InitOnceUnused

\* A call on the Defer begins, from the thread or from a running closure.
DeferCalls ==
    \/ \E v \in Values : DeferCall("defer", v)
    \/ \E v \in Values : DeferCall("try_defer", v)
    \/ DeferCall("execute", 0)
    \/ DeferCall("try_execute", 0)
    \/ \E v \in Values : ClosureCall("defer", v)
    \/ \E v \in Values : ClosureCall("try_defer", v)
    \/ ClosureCall("execute", 0)
    \/ ClosureCall("try_execute", 0)

\* The call in progress executes its next step.
DeferSteps ==
    \/ defer_fetch_or
    \/ defer_write
    \/ defer_store
    \/ try_defer_fetch_or
    \/ try_defer_write
    \/ try_defer_store
    \/ execute_fetch_or
    \/ execute_take
    \/ execute_invoke
    \/ execute_closure_ret
    \/ execute_store
    \/ try_execute_fetch_or
    \/ try_execute_take
    \/ try_execute_invoke
    \/ try_execute_closure_ret
    \/ try_execute_store

NextDefer == DeferCalls \/ DeferSteps

SpecDefer == DeferInit /\ [][NextDefer]_vars

\* Defer, shared by all the threads, used through try_defer and try_execute.
NextDeferShared ==
    \/ \E t \in AllThreads : SharedCall(t, "try_defer")
    \/ \E t \in AllThreads : SharedCall(t, "try_execute")
    \/ \E t \in AllThreads : shared_try_defer_fetch_or(t)
    \/ \E t \in AllThreads : shared_try_defer_write(t)
    \/ \E t \in AllThreads : shared_try_defer_store(t)
    \/ \E t \in AllThreads : shared_try_execute_fetch_or(t)
    \/ \E t \in AllThreads : shared_try_execute_take(t)
    \/ \E t \in AllThreads : shared_try_execute_invoke(t)
    \/ \E t \in AllThreads : shared_try_execute_closure_ret(t)
    \/ \E t \in AllThreads : shared_try_execute_store(t)

SpecDeferShared == DeferInit /\ [][NextDeferShared]_vars

\* A program that has an InitOnce, which its threads may share, and a Defer,
\* and uses one of the two: the instances have no state in common, so the
\* calls on one are explored with the other left as constructed.
LocksInit ==
    /\ InitOnce_uninitialized /\ InitOnceIdle /\ InitOnceShared
    /\ Defer_new /\ DeferIdle
    /\ DoOnce_new /\ DoOnceSync_new /\ OnceUnused

InitOnceUntouched == ncalls = 0
DeferUntouched == dcalls = 0

NextLocks ==
    \/ \E t \in AllThreads : DeferUntouched /\ Call(t, "try_get", 0)
    \/ \E t \in AllThreads : DeferUntouched /\ Call(t, "get", 0)
    \/ \E t \in AllThreads, v \in Values : DeferUntouched /\ Call(t, "initialize", v)
    \/ \E t \in AllThreads, v \in Values : DeferUntouched /\ Call(t, "get_or_init", v)
    \/ InitOnceSteps
    \/ \E v \in Values : InitOnceUntouched /\ DeferCall("defer", v)
    \/ \E v \in Values : InitOnceUntouched /\ DeferCall("try_defer", v)
    \/ InitOnceUntouched /\ DeferCall("execute", 0)
    \/ InitOnceUntouched /\ DeferCall("try_execute", 0)
    \/ \E v \in Values : ClosureCall("defer", v)
    \/ \E v \in Values : ClosureCall("try_defer", v)
    \/ ClosureCall("execute", 0)
    \/ ClosureCall("try_execute", 0)
    \/ DeferSteps

SpecLocks == LocksInit /\ [][NextLocks]_vars


\* ======================================================= DoOnce, DoOnceSync
IsDoOnce(e) == e.op = "do_once"
\* The do_once calls of a log, in order.
DoOnceCalls(log) == SelectSeq(log, IsDoOnce)
\* The completed DoOnceSync calls whose closure was executed.
SyncRan == {i \in 1..Len(syncLog) : syncLog[i].op = "do_once" /\ syncLog[i].val}
\* The callers that won the swap and have not yet run their closure.
SyncRunning == {t \in AllCallers : syncPc[t] = "func"}

\* C1: when any number of threads call do_once concurrently on one fresh
\* DoOnceSync, at most one call ever gets to execute its closure, and once
\* every call made has returned exactly one closure has been executed.
C1_ExactlyOneActionRuns ==
    /\ Cardinality(SyncRan) + Cardinality(SyncRunning) <= 1
    /\ (DoOnceCalls(syncLog) # <<>> /\ SyncRunning = {}) => Cardinality(SyncRan) = 1

\* Three threads share the DoOnceSync, and a call that lost the race returned
\* before the winner's closure had run.
C1_Witness ==
    /\ callers = AllCallers
    /\ SyncRunning = {}
    /\ \E i, j \in 1..Len(syncLog) :
         /\ i < j
         /\ syncLog[i].op = "do_once" /\ ~syncLog[i].val
         /\ syncLog[j].op = "do_once" /\ syncLog[j].val
         /\ syncLog[i].t # syncLog[j].t

\* Of a sequence of do_once calls, the first executed its closure and no
\* later one did.
FirstOnly(calls) ==
    calls # <<>> => (calls[1].val /\ \A i \in 2..Len(calls) : ~calls[i].val)

\* C2: for DoOnce, and for a DoOnceSync called by one thread, in every
\* sequence of k >= 1 do_once calls the first call's closure is executed and
\* no later call's closure is, so exactly one closure is executed whatever k.
C2_FirstCallOnly ==
    /\ FirstOnly(DoOnceCalls(onceLog))
    /\ (callers = {1} => FirstOnly(DoOnceCalls(syncLog)))

\* Three do_once calls were made in sequence on each of the two.
C2_Witness ==
    /\ Len(DoOnceCalls(onceLog)) >= 3
    /\ callers = {1}
    /\ Len(DoOnceCalls(syncLog)) >= 3

\* What the done() calls of a log returned: false while no do_once call has
\* begun, true after a do_once call has returned, and never false after true.
DoneOk(log, begun) ==
    /\ ~begun => \A i \in 1..Len(log) : log[i].op = "done" => ~log[i].val
    /\ \A i, j \in 1..Len(log) :
         (i < j /\ log[j].op = "done") =>
            /\ log[i].op = "do_once" => log[j].val
            /\ (log[i].op = "done" /\ log[i].val) => log[j].val

\* C3: done() returns false on a new DoOnce or DoOnceSync before any do_once
\* call, true after the first do_once call has returned, and never false again.
C3_DoneMonotonic ==
    /\ DoneOk(onceLog, DoOnceCalls(onceLog) # <<>>)
    /\ DoneOk(syncLog, DoOnceCalls(syncLog) # <<>> \/ SyncRunning # {})
    /\ DoOnceCalls(onceLog) # <<>> => once0
    /\ DoOnceCalls(syncLog) # <<>> => sync0

\* On each of the two, done() returned false, then do_once was called, then
\* done() returned true; the DoOnceSync is shared by several threads.
C3_Witness ==
    /\ onceLog = << [op |-> "done", val |-> FALSE], [op |-> "do_once", val |-> TRUE],
                    [op |-> "done", val |-> TRUE] >>
    /\ Cardinality(callers) > 1
    /\ Len(syncLog) = 3
    /\ syncLog[1].op = "done" /\ ~syncLog[1].val
    /\ syncLog[2].op = "do_once"
    /\ syncLog[3].op = "done" /\ syncLog[3].val /\ syncLog[3].t # syncLog[2].t

\* ================================================================= InitOnce
SoleThread == Cardinality(threads) = 1
\* The functions of all calls begun so far, completed or not.
FnsBegun == {hist[i].fn : i \in 1..Len(hist)}
               \cup {stack[t][1].fn : t \in {u \in AllThreads : InCall(u)}}
\* All frames of the calls in progress.
Frames == UNION {{stack[t][k] : k \in 1..Len(stack[t])} : t \in AllThreads}

\* C4: InitOnce is single-assignment: under every interleaving of initialize,
\* get_or_init, try_get and get calls, once the cell holds a value it never
\* becomes empty again and the value never changes.
C4_SingleAssignment == [][inner # None => inner' = inner]_vars

\* The cell is shared, it was initialized, and a later initialize with another
\* value has completed.
C4_Witness ==
    /\ ~SoleThread
    /\ inner # None
    /\ \E i, j \in 1..Len(hist) :
         /\ i < j
         /\ hist[i].fn = "initialize" /\ hist[i].res = <<"Ok", 0>>
         /\ hist[j].fn = "initialize" /\ hist[j].arg # hist[i].arg
         /\ hist[j].t # hist[i].t

\* Only try_get calls were made before the i-th call.
OnlyTryGetBefore(i) == \A j \in 1..(i - 1) : hist[j].fn = "try_get"
\* Only get and try_get calls were made between the i-th and the j-th call.
OnlyReadsBetween(i, j) == \A k \in (i + 1)..(j - 1) : hist[k].fn \in {"get", "try_get"}

\* C5: used by one thread, a fresh InitOnce answers try_get() with None;
\* initialize(v) then returns Ok(()); and the get() and try_get() calls that
\* follow return a reference to v.
C5_InitializeThenGet ==
    SoleThread =>
      \A i \in 1..Len(hist) :
        OnlyTryGetBefore(i) =>
          /\ hist[i].fn = "try_get" => hist[i].res = <<"None", 0>>
          /\ hist[i].fn = "initialize" =>
               /\ hist[i].res = <<"Ok", 0>>
               /\ inner = Some(hist[i].arg)
               /\ \A j \in (i + 1)..Len(hist) :
                    OnlyReadsBetween(i, j) =>
                      /\ hist[j].fn = "get" => hist[j].res = <<"Ref", hist[i].arg>>
                      /\ hist[j].fn = "try_get" => hist[j].res = <<"Some", hist[i].arg>>

\* try_get, initialize(v), try_get, get were called in this order by one thread.
C5_Witness ==
    /\ SoleThread
    /\ Len(hist) = 4
    /\ hist[1].fn = "try_get"
    /\ hist[2].fn = "initialize"
    /\ hist[3].fn = "try_get"
    /\ hist[4].fn = "get"

\* C6: initialize(v2) called on an InitOnce that already holds v returns Err,
\* ignores v2 and leaves the cell holding v, so that a following get() still
\* returns v.
C6_SecondInitializeFails ==
    /\ \A f \in Frames :
         (f.fn = "initialize" /\ f.pre.inner # None) => inner = f.pre.inner
    /\ \A i \in 1..Len(hist) :
         (hist[i].fn = "initialize" /\ hist[i].pre.inner # None) =>
            /\ IsErr(hist[i].res)
            /\ inner = hist[i].pre.inner
            /\ \A j \in (i + 1)..Len(hist) :
                 hist[j].fn = "get" => hist[j].res = <<"Ref", hist[i].pre.inner[1]>>

\* initialize(v2) was called on a cell holding another value, and get() after it.
C6_Witness ==
    \E i, j \in 1..Len(hist) :
       /\ i < j
       /\ hist[i].fn = "initialize"
       /\ hist[i].pre.inner # None
       /\ hist[i].pre.inner # Some(hist[i].arg)
       /\ hist[j].fn = "get"

\* C7: get() on an InitOnce that was never initialized (no initialize or
\* get_or_init call was ever begun on it) panics: it returns neither a
\* reference nor a default value.
C7_GetUninitializedPanics ==
    FnsBegun \subseteq {"get", "try_get"} =>
       \A i \in 1..Len(hist) : hist[i].fn = "get" => hist[i].res = <<"panic", 0>>

\* get() was called on a cell on which only get and try_get were ever called.
C7_Witness ==
    /\ FnsBegun \subseteq {"get", "try_get"}
    /\ \E i \in 1..Len(hist) : hist[i].fn = "get" /\ hist[i].res = <<"panic", 0>>

\* C8, as claimed: get_or_init(f) called by the only thread on an empty cell
\* whose lock is free runs f, stores its result and returns Ok of it, and
\* called on a populated cell whose lock is free it returns Ok of the value held.
C8_GetOrInitInitializes ==
    SoleThread =>
      \A i \in 1..Len(hist) :
        (hist[i].fn = "get_or_init" /\ ~hist[i].pre.lock) =>
           IF hist[i].pre.inner = None
              THEN /\ hist[i].res = <<"Ok", hist[i].arg>>
                   /\ inner = Some(hist[i].arg)
                   /\ \E k \in 1..Len(funcRuns) : funcRuns[k] = hist[i].id
              ELSE hist[i].res = <<"Ok", hist[i].pre.inner[1]>>

\* C9, as claimed: in a sequence of get_or_init calls made by one thread on a
\* fresh cell only the first call's initializer is executed, and every call
\* returns Ok of the value the first initializer produced.
C9_GetOrInitOnlyFirst ==
    (SoleThread /\ hist # <<>> /\ \A i \in 1..Len(hist) : hist[i].fn = "get_or_init") =>
       /\ funcRuns = <<hist[1].id>>
       /\ \A i \in 1..Len(hist) : hist[i].res = <<"Ok", hist[1].arg>>

\* C10, as claimed: no get_or_init call made by the only thread using the
\* cell returns Err.
C10_GetOrInitNeverErrs ==
    SoleThread =>
      \A i \in 1..Len(hist) : hist[i].fn = "get_or_init" => ~IsErr(hist[i].res)

\* Thread t holds the cell's lock: it is past a swap that returned false and
\* has not yet stored false.
Holds(t) ==
    \E k \in 1..Len(stack[t]) :
       \/ stack[t][k].fn = "try_get" /\ stack[t][k].pc = "unlock"
       \/ stack[t][k].fn = "initialize" /\ stack[t][k].pc \in {"check", "write", "unlock"}
       \/ stack[t][k].fn = "get_or_init"
             /\ stack[t][k].pc \in {"check", "func", "closure", "try", "unlock"}

\* C11: a get_or_init whose swap finds the lock held returns Err at once (it
\* neither panics nor waits), does not run its initializer and leaves the
\* cell and the lock as they were.
C11_GetOrInitContended ==
    [][\A t \in AllThreads :
         (At(t, "get_or_init", "swap") /\ Len(stack[t]) = 1 /\ lock
             /\ stack'[t] # stack[t]) =>
            /\ stack'[t] = <<>>
            /\ hist' = Append(hist, [t |-> t, fn |-> "get_or_init", arg |-> Top(t).arg,
                                     id |-> Top(t).id, pre |-> Top(t).pre,
                                     res |-> ErrSameTime])
            /\ funcRuns' = funcRuns
            /\ inner' = inner
            /\ lock' = lock]_vars

\* A get_or_init returned the contention Err while another thread was inside
\* its critical section.
C11_Witness ==
    \E i \in 1..Len(hist) :
       /\ hist[i].fn = "get_or_init"
       /\ hist[i].res = ErrSameTime
       /\ funcRuns = <<>>
       /\ \E u \in AllThreads \ {hist[i].t} : Holds(u)

\* Two or more threads have each called initialize once on the fresh cell,
\* nothing else was called, and every call has returned.
InitializeRaceOver ==
    /\ Len(hist) >= 2
    /\ FnsBegun = {"initialize"}
    /\ \A t \in AllThreads : ~InCall(t)
    /\ \A i, j \in 1..Len(hist) : hist[i].t = hist[j].t => i = j

\* C20: when two or more threads race initialize on an empty cell with a free
\* lock and nothing else touches the cell, exactly one call returns Ok, every
\* other call returns Err, and the cell holds the value of the Ok call.
C20_InitializeRaceOneWinner ==
    InitializeRaceOver =>
       \E i \in 1..Len(hist) :
          /\ hist[i].res = <<"Ok", 0>>
          /\ inner = Some(hist[i].arg)
          /\ \A j \in 1..Len(hist) : j # i => IsErr(hist[j].res)

\* A finished race of initialize calls with different values in which a
\* loser found the lock held by the winner.
C20_Witness ==
    /\ InitializeRaceOver
    /\ \E i, j \in 1..Len(hist) :
          /\ hist[i].arg # hist[j].arg
          /\ hist[i].res = <<"Ok", 0>>
          /\ hist[j].res = ErrConcurrently

\* C13: try_get returns a reference to the stored value exactly when the
\* value is present and the lock is free at the call, and None (never an
\* error or a panic) when the cell is empty or the lock is held: a completed
\* try_get returned None or Some, a Some it returned is the value the cell
\* holds, and a caller that is alone on the cell got Some exactly when the
\* cell held a value and the lock was free.
\* Violated: try_get reads the cell after it has released the lock, so the
\* read races with the write of an initialize on another thread.
C13_TryGetReturnsStoredValue ==
    \A i \in 1..Len(hist) :
       hist[i].fn = "try_get" =>
          /\ hist[i].res[1] \in {"None", "Some"}
          /\ hist[i].res[1] = "Some" => inner = Some(hist[i].res[2])
          /\ SoleThread =>
                hist[i].res = IF hist[i].pre.inner # None /\ ~hist[i].pre.lock
                                 THEN <<"Some", hist[i].pre.inner[1]>>
                                 ELSE <<"None", 0>>

\* C12: a call of initialize or get_or_init made by the initializer of a
\* get_or_init on the same cell panics itself; it never returns a value or
\* an error to the initializer.
\* Violated: the reentrant call finds the lock held by the outer get_or_init
\* and returns Err to the initializer ("... twice concurrently" from
\* initialize, "... twice at the same time" from get_or_init).
C12_ReentrantCallPanics ==
    \A t \in AllThreads : ~(At(t, "get_or_init", "closure") /\ rv[t] # NoValue)

\* ------------------------------------------------------- Defer claims
\* The invocations of closures made by the call with this id.
RunsOf(id) == SelectSeq(fRuns, LAMBDA r : r.id = id)
\* The call completed last, when no call is in progress.
DeferAfter(i) == i = Len(dhist) /\ ~DeferInCall
\* An execute or try_execute that found the slot empty and the lock free.
FoundEmpty(c) ==
    /\ c.fn \in {"execute", "try_execute"}
    /\ c.pre.state = None
    /\ ~c.pre.locked

\* C14: is_deferred() is false on a new Defer; after defer(x) it is true; a
\* following execute(f), whose closure makes no call on the Defer, returns
\* true, has invoked f exactly once, with x, and leaves is_deferred() false.
\* As this holds after every completed call, it holds on every later cycle.
C14_DeferLifecycle ==
    /\ dcalls = 0 => ~is_deferred
    /\ \A i \in 1..Len(dhist) :
         /\ (dhist[i].fn = "defer" /\ DeferAfter(i)) =>
               /\ dhist[i].res = "unit"
               /\ is_deferred
               /\ state = Some(dhist[i].arg)
         /\ (i > 1 /\ dhist[i - 1].fn = "defer" /\ dhist[i].fn = "execute"
                /\ DeferAfter(i) /\ dcalls = dhist[i].id) =>
               /\ dhist[i].res = "true"
               /\ RunsOf(dhist[i].id) = <<[id |-> dhist[i].id, val |-> dhist[i - 1].arg]>>
               /\ ~is_deferred

\* Two cycles of defer and execute were completed, with different values.
C14_Witness ==
    /\ ~DeferInCall
    /\ Len(dhist) = 4
    /\ dcalls = 4
    /\ dhist[1].fn = "defer" /\ dhist[2].fn = "execute" /\ dhist[2].res = "true"
    /\ dhist[3].fn = "defer" /\ dhist[4].fn = "execute" /\ dhist[4].res = "true"
    /\ dhist[1].arg # dhist[3].arg
    /\ ~is_deferred

\* C15: execute and try_execute on a Defer with nothing pending and a free
\* lock return false (Ok(false) for try_execute), never invoke the closure,
\* and leave the slot empty and the lock free.
C15_ExecuteEmpty ==
    /\ \A k \in 1..Len(dstack) :
         FoundEmpty(dstack[k]) => state = None /\ RunsOf(dstack[k].id) = <<>>
    /\ \A i \in 1..Len(dhist) :
         FoundEmpty(dhist[i]) =>
            /\ dhist[i].res = IF dhist[i].fn = "execute" THEN "false" ELSE "Ok(false)"
            /\ RunsOf(dhist[i].id) = <<>>
            /\ DeferAfter(i) => state = None /\ ~locked

\* An execute and then a try_execute were completed on an empty Defer.
C15_Witness ==
    \E i \in 2..Len(dhist) :
       /\ DeferAfter(i)
       /\ dhist[i - 1].fn = "execute" /\ FoundEmpty(dhist[i - 1])
       /\ dhist[i].fn = "try_execute" /\ FoundEmpty(dhist[i])

\* C16: defer is last-write-wins: after defer(a) and then defer(b) the slot
\* holds b; the next execute invokes its closure exactly once, with b, and
\* empties the slot; an execute after that returns false without invoking
\* its closure.
C16_DeferLastWriteWins ==
    \A i \in 2..Len(dhist) :
       (dhist[i - 1].fn = "defer" /\ dhist[i].fn = "defer") =>
          /\ DeferAfter(i) => state = Some(dhist[i].arg)
          /\ (i + 1 <= Len(dhist) /\ dhist[i + 1].fn = "execute"
                 /\ dhist[i + 1].res # PanicDefer /\ dhist[i + 1].res # PanicExecute) =>
                /\ dhist[i + 1].res = "true"
                /\ RunsOf(dhist[i + 1].id) =
                      <<[id |-> dhist[i + 1].id, val |-> dhist[i].arg]>>
                /\ DeferAfter(i + 1) => state = None
                /\ (i + 2 <= Len(dhist) /\ dhist[i + 2].fn = "execute") =>
                      /\ dhist[i + 2].res = "false"
                      /\ RunsOf(dhist[i + 2].id) = <<>>

\* defer(a), defer(b) with b # a, an execute that ran and one that did not.
C16_Witness ==
    /\ Len(dhist) = 4
    /\ dhist[1].fn = "defer" /\ dhist[2].fn = "defer"
    /\ dhist[1].arg # dhist[2].arg
    /\ dhist[3].fn = "execute" /\ dhist[3].res = "true"
    /\ dhist[4].fn = "execute" /\ dhist[4].res = "false"

\* The innermost call is fn, about to execute its fetch_or, and this step is
\* that fetch_or.
FetchOrStep(fns) ==
    /\ DeferInCall
    /\ DeferTop.fn \in fns
    /\ DeferTop.pc = "fetch_or"
    /\ dstack' # dstack

\* C17: defer and execute panic when the lock is held by a call in progress:
\* defer does not write the slot, execute neither takes the pending value
\* nor invokes its closure, and the lock stays held.
C17_DeferExecutePanicLocked ==
    [][(FetchOrStep({"defer", "execute"}) /\ locked) =>
          /\ dstack' = <<>>
          /\ dhist' = Append(dhist, [fn |-> dstack[1].fn, arg |-> dstack[1].arg,
                                     id |-> dstack[1].id, pre |-> dstack[1].pre,
                                     res |-> IF DeferTop.fn = "defer"
                                                THEN PanicDefer ELSE PanicExecute])
          /\ state' = state
          /\ fRuns' = fRuns
          /\ locked']_vars

\* A defer made from inside a running closure panicked; the lock is held.
C17_Witness ==
    \E i \in 1..Len(dhist) :
       /\ dhist[i].res = PanicDefer
       /\ RunsOf(dhist[i].id) # <<>>
       /\ locked

\* C18: try_defer and try_execute do not panic when the lock is held by a
\* call in progress: try_defer returns false without storing, try_execute
\* returns Err without taking the pending value or invoking its closure.
\* When the lock is free try_defer stores its value and returns true.
C18_TryNeverPanics ==
    [][/\ (FetchOrStep({"try_defer", "try_execute"}) /\ locked) =>
             /\ dstack' = SubSeq(dstack, 1, Len(dstack) - 1)
             /\ dstack' # <<>>
             /\ dret' = IF DeferTop.fn = "try_defer" THEN "false" ELSE "Err(())"
             /\ dhist' = dhist
             /\ state' = state
             /\ fRuns' = fRuns
       /\ (FetchOrStep({"try_defer"}) /\ ~locked) =>
             dstack' = DeferGoto("write")
       /\ (DeferAt("try_defer", "write") /\ dstack' # dstack) =>
             /\ state' = Some(DeferTop.arg)
             /\ dstack' = DeferGoto("store")
       /\ (DeferAt("try_defer", "store") /\ dstack' # dstack) =>
             /\ state' = state
             /\ IF Len(dstack) = 1
                   THEN dhist'[Len(dhist')].res = "true"
                   ELSE dret' = "true"]_vars

\* A try_defer on the free lock stored its value and returned true, and a
\* try_execute made from inside a running closure has returned Err to it.
C18_Witness ==
    /\ DeferInCall
    /\ dret = "Err(())"
    /\ \E i \in 1..Len(dhist) : dhist[i].fn = "try_defer" /\ dhist[i].res = "true"

\* C19: try_defer stores its value only if none is pending: on a Defer that
\* holds a pending value, with the lock free, it leaves that value in place
\* and returns false; it returns true only when the slot was empty.
\* Violated: try_defer overwrites the pending value and returns true.
C19_TryDeferKeepsPending ==
    \A i \in 1..Len(dhist) :
       (dhist[i].fn = "try_defer" /\ ~dhist[i].pre.locked) =>
          /\ dhist[i].pre.state # None =>
                /\ dhist[i].res = "false"
                /\ DeferAfter(i) => state = dhist[i].pre.state
          /\ dhist[i].res = "true" => dhist[i].pre.state = None

\* ---------------------------------------------------- behaviour claims
\* No thread is inside a call on the InitOnce.
InitOnceQuiet == \A t \in AllThreads : ~InCall(t)

\* C21: every InitOnce operation that takes the lock releases it before it
\* returns, on its error paths too: whenever no call is in progress the lock
\* is free, and so a try_get made by a sole thread on a populated cell
\* returns the value, whatever calls returned Err before it.
\* Violated: initialize returns Err("... a second time") and get_or_init
\* returns the Err of its nested initialize without storing false.
C21_LockReleasedOnReturn ==
    /\ InitOnceQuiet => ~lock
    /\ \A i \in 1..Len(hist) :
         (SoleThread /\ hist[i].fn = "try_get" /\ hist[i].pre.inner # None) =>
            hist[i].res = <<"Some", hist[i].pre.inner[1]>>

\* C26: for DoOnceSync, done() returning true implies that the guarded
\* closure has finished: no done() returns true, and no do_once returns as a
\* skipped no-op, before the one executing closure has completed.
\* Violated: do_once sets the flag with its swap, before it calls func().
C26_DoneImpliesFinished ==
    \A i \in 1..Len(syncLog) :
       (\/ syncLog[i].op = "done" /\ syncLog[i].val
        \/ syncLog[i].op = "do_once" /\ ~syncLog[i].val) =>
          \E j \in 1..(i - 1) : syncLog[j].op = "do_once" /\ syncLog[j].val

\* Thread u is inside initialize between its swap, which returned false, and
\* its store(false): the window that contains the write of the cell.
InInitializeWindow(u) ==
    \E k \in 1..Len(stack[u]) :
       stack[u][k].fn = "initialize" /\ stack[u][k].pc \in {"check", "write", "unlock"}

\* This step of thread t is a read of the cell by try_get, get or get_or_init.
ReadsCell(t) ==
    /\ \/ At(t, "try_get", "as_ref")
       \/ At(t, "get", "read")
       \/ At(t, "get_or_init", "check")
    /\ stack'[t] # stack[t]

\* C22: no operation observes a half-written cell: while a thread is inside
\* initialize between taking the lock and releasing it, no other thread's
\* try_get, get or get_or_init reads the cell.
\* Violated: get reads without the lock, and try_get reads after it has
\* released the lock.
C22_NoReadInsideWriteWindow ==
    [][\A t \in AllThreads :
         ReadsCell(t) => \A u \in AllThreads \ {t} : ~InInitializeWindow(u)]_vars

\* The frames of calls on the InitOnce that hold its lock: past a swap that
\* returned false, before the store(false).
InitOnceHolders ==
    {p \in UNION {{<<t, k>> : k \in 1..Len(stack[t])} : t \in AllThreads} :
        LET f == stack[p[1]][p[2]] IN
          \/ f.fn = "try_get" /\ f.pc = "unlock"
          \/ f.fn = "initialize" /\ f.pc \in {"check", "write", "unlock"}
          \/ f.fn = "get_or_init" /\ f.pc \in {"check", "func", "closure", "try", "unlock"}}

\* The frames of calls on the Defer that hold its lock: past a fetch_or that
\* returned false, before the store(false).
DeferHolders ==
    {k \in 1..Len(dstack) :
        \/ dstack[k].fn \in {"defer", "try_defer"} /\ dstack[k].pc \in {"write", "store"}
        \/ dstack[k].fn \in {"execute", "try_execute"}
              /\ dstack[k].pc \in {"take", "invoke", "f", "store"}}

\* C23: the lock of an InitOnce and of a Defer gives mutual exclusion by
\* try-acquire: at most one call is between an acquisition of the lock (a
\* swap or fetch_or that returned false) and its release, and the lock is
\* set for as long as it is.
C23_MutualExclusion ==
    /\ Cardinality(InitOnceHolders) <= 1
    /\ InitOnceHolders # {} => lock
    /\ Cardinality(DeferHolders) <= 1
    /\ DeferHolders # {} => locked

\* Two threads share the InitOnce: one holds the lock, inside initialize, and
\* the initialize that the other began later has lost against it.
C23_Witness ==
    \E p \in InitOnceHolders :
       \E i \in 1..Len(hist) :
          /\ hist[i].t # p[1]
          /\ hist[i].fn = "initialize"
          /\ hist[i].res = ErrConcurrently
          /\ hist[i].id > stack[p[1]][1].id

\* The closure passed to execute or try_execute is running.
ClosureRunning ==
    /\ DeferInCall
    /\ dstack[1].fn \in {"execute", "try_execute"}
    /\ dstack[1].pc = "f"

\* C25: the closure passed to execute or try_execute runs with the lock held
\* and the pending value already taken: while it runs is_deferred() is false
\* and the lock stays set; a try_defer made from inside it returns false and
\* stores nothing, a try_execute returns Err, and a defer or execute panics.
C25_ClosureRunsUnderLock ==
    /\ [](ClosureRunning => locked /\ ~is_deferred)
    /\ [][ClosureRunning =>
            /\ locked'
            /\ state' = None
            /\ (Len(dstack) = 2 /\ dstack' # dstack) =>
                  /\ fRuns' = fRuns
                  /\ IF DeferTop.fn \in {"defer", "execute"}
                        THEN /\ dstack' = <<>>
                             /\ dhist'[Len(dhist')].res =
                                   IF DeferTop.fn = "defer" THEN PanicDefer ELSE PanicExecute
                        ELSE /\ dstack' = <<dstack[1]>>
                             /\ dhist' = dhist
                             /\ dret' = IF DeferTop.fn = "try_defer"
                                           THEN "false" ELSE "Err(())"]_vars

\* A try_defer made from inside the running closure has returned false to it;
\* the closure is still running.
C25_Witness ==
    /\ ClosureRunning
    /\ Len(dstack) = 1
    /\ dret = "false"
    /\ locked
    /\ ~is_deferred

\* The try_defer calls that stored their value and returned true.
SuccessfulStores ==
    {k \in 1..Len(dhist) : dhist[k].fn = "try_defer" /\ dhist[k].res = "true"}

\* C24: each value stored in a Defer is handed to at most one closure: under
\* every interleaving of try_defer and try_execute calls from several
\* threads, no stored value is passed to a closure twice, every value passed
\* is that of a successful store, and the closures invoked are never more
\* than the successful stores.
C24_EachValueHandedOnce ==
    /\ \A i, j \in 1..Len(fRuns) : fRuns[i].val = fRuns[j].val => i = j
    /\ \A i \in 1..Len(fRuns) :
          \E k \in SuccessfulStores : dhist[k].arg = fRuns[i].val
    /\ Len(fRuns) <= Cardinality(SuccessfulStores)

\* Threads have stored twice, a try_execute met the lock held by another
\* thread and returned Err, and a try_execute has invoked its closure.
C24_Witness ==
    /\ Cardinality(SuccessfulStores) >= 2
    /\ \E k \in 1..Len(dhist) : dhist[k].fn = "try_execute" /\ dhist[k].res = "Err(())"
    /\ fRuns # <<>>
    /\ \E t \in AllThreads : tcall[t] # <<>>

==========================================================================
